---------------------------- MODULE Spec2Model ----------------------------
(***************************************************************************)
(* A model of the battle engine and the type-effectiveness tools of the    *)
(* Pokemon MCP server (src/server.py).                                     *)
(*                                                                         *)
(* Python evaluates the damage formula and the effectiveness product in    *)
(* IEEE-754 binary64 ("float").  TLC integers are 32 bits wide, so the     *)
(* first part of the module is a small arbitrary-precision natural number  *)
(* package (little-endian sequences of 15-bit limbs) and, on top of it,    *)
(* binary64 multiplication, division and addition with round-to-nearest-   *)
(* even, which is what CPython's float operators compute.                  *)
(***************************************************************************)
EXTENDS Integers, Sequences, FiniteSets, TLC

(***************************************************************************)
(* Natural numbers of arbitrary size: <<d1, d2, ...>> is                   *)
(* d1 + d2*Limb + d3*Limb^2 + ..., no leading (last) zero limb, zero = <<>>*)
(***************************************************************************)
LimbBits == 14 + 1
Limb == 2 ^ LimbBits

RECURSIVE BNNorm(_)
BNNorm(x) ==
    IF x = <<>> THEN <<>>
    ELSE IF x[Len(x)] = 0 THEN BNNorm(SubSeq(x, 1, Len(x) - 1))
    ELSE x

RECURSIVE BNOfInt(_)
BNOfInt(n) ==
    IF n = 0 THEN <<>> ELSE <<n % Limb>> \o BNOfInt(n \div Limb)

RECURSIVE BNToInt(_)
BNToInt(x) ==
    IF x = <<>> THEN 0 ELSE Head(x) + Limb * BNToInt(Tail(x))

RECURSIVE BNAddC(_, _, _)
BNAddC(x, y, c) ==
    IF x = <<>> /\ y = <<>> THEN (IF c = 0 THEN <<>> ELSE <<c>>)
    ELSE LET a == IF x = <<>> THEN 0 ELSE Head(x)
             b == IF y = <<>> THEN 0 ELSE Head(y)
             s == a + b + c
         IN  <<s % Limb>> \o BNAddC(IF x = <<>> THEN <<>> ELSE Tail(x),
                                    IF y = <<>> THEN <<>> ELSE Tail(y),
                                    s \div Limb)

BNAdd(x, y) == BNAddC(x, y, 0)

\* x * k + c for a single limb k
RECURSIVE BNMulLimb(_, _, _)
BNMulLimb(x, k, c) ==
    IF x = <<>> THEN (IF c = 0 THEN <<>> ELSE <<c>>)
    ELSE LET s == Head(x) * k + c
         IN  <<s % Limb>> \o BNMulLimb(Tail(x), k, s \div Limb)

RECURSIVE BNMul(_, _)
BNMul(x, y) ==
    IF x = <<>> \/ y = <<>> THEN <<>>
    ELSE LET hi == BNMul(x, Tail(y))
         IN  BNNorm(BNAdd(BNMulLimb(x, Head(y), 0),
                          IF hi = <<>> THEN <<>> ELSE <<0>> \o hi))

\* quotient and remainder of x by a single limb k > 0
RECURSIVE BNDivLimbRec(_, _)
BNDivLimbRec(x, k) ==
    IF x = <<>> THEN [q |-> <<>>, r |-> 0]
    ELSE LET hi  == BNDivLimbRec(Tail(x), k)
             cur == hi.r * Limb + Head(x)
         IN  [q |-> <<cur \div k>> \o hi.q, r |-> cur % k]

BNDivLimb(x, k) ==
    LET d == BNDivLimbRec(x, k) IN [q |-> BNNorm(d.q), r |-> d.r]

Zeros(n) == [i \in 1..n |-> 0]

\* x * 2^s
BNShl(x, s) ==
    IF x = <<>> THEN <<>>
    ELSE Zeros(s \div LimbBits) \o BNMulLimb(x, 2 ^ (s % LimbBits), 0)

\* floor(x / 2^s), and whether a nonzero bit was shifted out
BNShr(x, s) ==
    LET n    == IF s \div LimbBits < Len(x) THEN s \div LimbBits ELSE Len(x)
        d    == BNDivLimb(SubSeq(x, n + 1, Len(x)), 2 ^ (s % LimbBits))
    IN  [q |-> IF s \div LimbBits >= Len(x) THEN <<>> ELSE d.q,
         sticky |-> (s \div LimbBits >= Len(x) /\ x # <<>>)
                    \/ (s \div LimbBits < Len(x) /\ d.r # 0)
                    \/ \E i \in 1..n : x[i] # 0]

RECURSIVE IntBitLen(_)
IntBitLen(n) == IF n = 0 THEN 0 ELSE 1 + IntBitLen(n \div 2)

BNBitLen(x) ==
    IF x = <<>> THEN 0 ELSE LimbBits * (Len(x) - 1) + IntBitLen(x[Len(x)])

BNOdd(x) == x # <<>> /\ Head(x) % 2 = 1

RECURSIVE BNLess(_, _)
BNLess(x, y) ==
    IF Len(x) # Len(y) THEN Len(x) < Len(y)
    ELSE IF x = <<>> THEN FALSE
    ELSE IF x[Len(x)] # y[Len(y)] THEN x[Len(x)] < y[Len(y)]
    ELSE BNLess(SubSeq(x, 1, Len(x) - 1), SubSeq(y, 1, Len(y) - 1))

(***************************************************************************)
(* Python floats: a non-negative binary64 value is [m, e], the number      *)
(* m * 2^e with m a natural of at most MantBits bits, kept canonical       *)
(* (m odd, or m = <<>> and e = 0 for 0.0) so that equal numbers are equal  *)
(* records.  The values met here are far from the subnormal and overflow   *)
(* ranges, so the exponent is unbounded.                                   *)
(***************************************************************************)
MantBits == 53

RECURSIVE IntTrailingZeros(_)
IntTrailingZeros(n) == IF n % 2 = 1 THEN 0 ELSE 1 + IntTrailingZeros(n \div 2)

RECURSIVE BNTrailingZeroLimbs(_)
BNTrailingZeroLimbs(x) ==
    IF Head(x) # 0 THEN 0 ELSE 1 + BNTrailingZeroLimbs(Tail(x))

FCanon(m, e) ==
    IF m = <<>> THEN [m |-> <<>>, e |-> 0]
    ELSE LET zl == BNTrailingZeroLimbs(m)
             m1 == SubSeq(m, zl + 1, Len(m))
             zb == IntTrailingZeros(Head(m1))
         IN  [m |-> BNDivLimb(m1, 2 ^ zb).q, e |-> e + zl * LimbBits + zb]

\* The binary64 nearest to n * 2^e (+ a fraction of 2^e when sticky), ties to
\* the even mantissa
FRound(n, e, sticky) ==
    IF BNBitLen(n) <= MantBits THEN FCanon(n, e)
    ELSE LET s     == BNBitLen(n) - MantBits
             sh    == BNShr(n, s - 1)
             guard == BNOdd(sh.q)
             q     == BNDivLimb(sh.q, 2).q
             up    == guard /\ (sh.sticky \/ sticky \/ BNOdd(q))
         IN  FCanon(IF up THEN BNAdd(q, <<1>>) ELSE q, e + s)

\* float(n) for an int n, 0 <= n < 2^31
FloatOfInt(n) == FCanon(BNOfInt(n), 0)

FMul(x, y) == FRound(BNMul(x.m, y.m), x.e + y.e, FALSE)

FAdd(x, y) ==
    LET e == IF x.e < y.e THEN x.e ELSE y.e
    IN  FRound(BNAdd(BNShl(x.m, x.e - e), BNShl(y.m, y.e - e)), e, FALSE)

\* x / y for a divisor whose mantissa is a single limb (every divisor of the
\* program is a small int: a base stat, 5, 8, 50, 100)
FDiv(x, y) ==
    LET guard == 5  \* limbs of extra precision: the quotient keeps > MantBits + 2 bits
        d     == BNDivLimb(Zeros(guard) \o x.m, Head(y.m))
    IN  IF x.m = <<>> THEN FCanon(<<>>, 0)
        ELSE FRound(d.q, x.e - guard * LimbBits - y.e, d.r # 0)

FLess(x, y) ==
    LET e == IF x.e < y.e THEN x.e ELSE y.e
    IN  BNLess(BNShl(x.m, x.e - e), BNShl(y.m, y.e - e))

\* int(x): truncation toward zero of a non-negative float
FToInt(x) ==
    IF x.e >= 0 THEN BNToInt(BNShl(x.m, x.e)) ELSE BNToInt(BNShr(x.m, 0 - x.e).q)

(***************************************************************************)
(* The effectiveness chart.  Key: attacking type; value: the multipliers   *)
(* of the defending types it lists.  x05 is the float 0.5; x0, x1 and x2   *)
(* are the ints 0, 1 and 2, which the product turns into floats.           *)
(***************************************************************************)
x0  == [m |-> <<>>, e |-> 0]
x05 == [m |-> <<1>>, e |-> -1]
x1  == [m |-> <<1>>, e |-> 0]
x2  == [m |-> <<1>>, e |-> 1]

TYPE_EFFECTIVENESS ==
    [
      normal   |-> [rock |-> x05, ghost |-> x0],
      fire     |-> [fire |-> x05, water |-> x05, grass |-> x2, ice |-> x2, bug |-> x2, rock |-> x05, steel |-> x2],
      water    |-> [fire |-> x2, water |-> x05, grass |-> x05, ground |-> x2, rock |-> x2, dragon |-> x05],
      electric |-> [water |-> x2, electric |-> x05, grass |-> x05, ground |-> x0, flying |-> x2, dragon |-> x05],
      grass    |-> [fire |-> x05, water |-> x2, grass |-> x05, poison |-> x05, ground |-> x2, flying |-> x05, bug |-> x05, rock |-> x2, dragon |-> x05, steel |-> x05],
      ice      |-> [fire |-> x05, water |-> x05, grass |-> x2, ice |-> x05, ground |-> x2, flying |-> x2, dragon |-> x2, steel |-> x05],
      fighting |-> [normal |-> x2, ice |-> x2, poison |-> x05, flying |-> x05, psychic |-> x05, bug |-> x05, rock |-> x2, ghost |-> x0, dark |-> x2, steel |-> x2],
      poison   |-> [grass |-> x2, poison |-> x05, ground |-> x05, rock |-> x05, ghost |-> x05, steel |-> x0],
      ground   |-> [fire |-> x2, electric |-> x2, grass |-> x05, poison |-> x2, flying |-> x0, bug |-> x05, rock |-> x2, steel |-> x2],
      flying   |-> [electric |-> x05, grass |-> x2, fighting |-> x2, bug |-> x2, rock |-> x05, steel |-> x05],
      psychic  |-> [fighting |-> x2, poison |-> x2, psychic |-> x05, dark |-> x0, steel |-> x05],
      bug      |-> [fire |-> x05, grass |-> x2, fighting |-> x05, poison |-> x05, flying |-> x05, psychic |-> x2, ghost |-> x05, dark |-> x2, steel |-> x05],
      rock     |-> [fire |-> x2, ice |-> x2, fighting |-> x05, ground |-> x05, flying |-> x2, bug |-> x2, steel |-> x05],
      ghost    |-> [normal |-> x0, psychic |-> x2, ghost |-> x2, dark |-> x05],
      dragon   |-> [dragon |-> x2, steel |-> x05],
      dark     |-> [fighting |-> x05, psychic |-> x2, ghost |-> x2, dark |-> x05],
      steel    |-> [fire |-> x05, water |-> x05, electric |-> x05, ice |-> x2, rock |-> x2, dragon |-> x1, steel |-> x05],
      fairy    |-> [fire |-> x05, fighting |-> x2, poison |-> x05, dragon |-> x2, dark |-> x2, steel |-> x05]
    ]

\* dict.get(key, default)
Get(dict, key, default) == IF key \in DOMAIN dict THEN dict[key] ELSE default

\* a dict with no keys, {}
EmptyDict == [k \in {} |-> x1]

(***************************************************************************)
(* Optional values: None is <<>>, a present value v is <<v>>.              *)
(***************************************************************************)
None == <<>>
Some(v) == <<v>>

(***************************************************************************)
(* Type effectiveness and damage, as simulate_battle computes them.        *)
(***************************************************************************)
\* (variant: `=` for `*=`, so that the last type alone counts)
RECURSIVE EffectivenessLoopLastOnly(_, _, _)
EffectivenessLoopLastOnly(effectiveness, move_type, types) ==
    IF types = <<>> THEN effectiveness
    ELSE EffectivenessLoopLastOnly(
             Get(Get(TYPE_EFFECTIVENESS, move_type, EmptyDict), Head(types), x1),
             move_type, Tail(types))

\* effectiveness = 1.0; for def_type in types: effectiveness *= chart lookup
RECURSIVE EffectivenessLoop(_, _, _)
EffectivenessLoop(effectiveness, move_type, types) ==
    IF types = <<>> THEN effectiveness
    ELSE EffectivenessLoop(
             FMul(effectiveness,
                  Get(Get(TYPE_EFFECTIVENESS, move_type, EmptyDict), Head(types), x1)),
             move_type, Tail(types))

Effectiveness(move_type, types) == EffectivenessLoop(x1, move_type, types)

\* the line the battle log gets for an effectiveness
EffectivenessNote(effectiveness) ==
    IF FLess(x1, effectiveness) THEN "It's super effective!"
    ELSE IF FLess(effectiveness, x1) /\ FLess(x0, effectiveness)
         THEN "It's not very effective..."
    ELSE IF effectiveness = x0 THEN "It doesn't affect the defender..."
    ELSE ""

\* 2/5 + 2
LevelFactor == FAdd(FDiv(FloatOfInt(2), FloatOfInt(5)), FloatOfInt(2))

\* (variant: the `+ 2` is left out)
DamageNoBonus(move_power, attack, defense, effectiveness) ==
    FToInt(FMul(FDiv(FMul(FMul(LevelFactor, FloatOfInt(move_power)),
                          FDiv(FloatOfInt(attack), FloatOfInt(defense))),
                     FloatOfInt(50)),
                effectiveness))

\* (variant: defense / attack for attack / defense)
DamageSwapped(move_power, attack, defense, effectiveness) ==
    FToInt(FAdd(FMul(FDiv(FMul(FMul(LevelFactor, FloatOfInt(move_power)),
                               FDiv(FloatOfInt(defense), FloatOfInt(attack))),
                          FloatOfInt(50)),
                     effectiveness),
                FloatOfInt(2)))

\* int((((2/5 + 2) * move_power * (attack / defense)) / 50) * effectiveness + 2)
Damage(move_power, attack, defense, effectiveness) ==
    FToInt(FAdd(FMul(FDiv(FMul(FMul(LevelFactor, FloatOfInt(move_power)),
                               FDiv(FloatOfInt(attack), FloatOfInt(defense))),
                          FloatOfInt(50)),
                     effectiveness),
                FloatOfInt(2)))

\* int(damage * 0.5)
BurnDrop(damage) == FToInt(FMul(FloatOfInt(damage), x05))

\* (variant: the status damage is added instead of taken off)
StatusDamageNegated(original_max_hp) ==
    0 - FToInt(FDiv(FloatOfInt(original_max_hp), FloatOfInt(8)))

\* int(original_max_hp / 8)
StatusDamage(original_max_hp) ==
    FToInt(FDiv(FloatOfInt(original_max_hp), FloatOfInt(8)))

(***************************************************************************)
(* The Creature Data Provider (PokeAPI), seen through _make_api_request.   *)
(* A URL is <<base, kind, id>>.  The creatures and moves below are the     *)
(* provider's content in this model: small base stats keep battles short,  *)
(* and between them they cover every ailment branch, a non-damaging move   *)
(* (power None), a zero-power move, a move without meta, a move of a type  *)
(* the chart does not list, a pool with moves of two different ailments, a *)
(* pool without any damaging move and a pool that is empty once the blank  *)
(* URLs are filtered out.                                                  *)
(***************************************************************************)
POKEAPI_BASE_URL == "https://pokeapi.co/api/v2"

PokemonUrl(name) == <<POKEAPI_BASE_URL, "pokemon", name>>
MoveUrl(id) == <<POKEAPI_BASE_URL, "move", id>>
BlankUrl == <<>>

Meta(ailment, chance) == Some([ailment |-> ailment, ailment_chance |-> chance])

MoveCatalogue ==
    [ nuzzle  |-> [name |-> "nuzzle", power |-> Some(20), type |-> "electric",
                   meta |-> Meta("paralysis", 100)],
      tackle  |-> [name |-> "tackle", power |-> Some(40), type |-> "normal",
                   meta |-> Meta("none", 0)],
      growl   |-> [name |-> "growl", power |-> None, type |-> "normal",
                   meta |-> Meta("none", 0)],
      ember   |-> [name |-> "ember", power |-> Some(40), type |-> "fire",
                   meta |-> Meta("burn", 10)],
      splash  |-> [name |-> "splash", power |-> Some(0), type |-> "normal",
                   meta |-> Meta("none", 0)],
      sting   |-> [name |-> "sting", power |-> Some(15), type |-> "poison",
                   meta |-> Meta("poison", 30)],
      powder  |-> [name |-> "powder", power |-> Some(40), type |-> "ice",
                   meta |-> Meta("freeze", 10)],
      rush    |-> [name |-> "rush", power |-> Some(55), type |-> "shadow",
                   meta |-> None],
      lava    |-> [name |-> "lava", power |-> Some(80), type |-> "ground",
                   meta |-> Meta("burn", 100)] ]

\* base_stat slots: 1 hp, 2 attack, 3 defense, 4 special-attack,
\* 5 special-defense, 6 speed (the code's 0, 1, 2 and 5)
PokemonCatalogue ==
    [ sparky |-> [name |-> "sparky", stats |-> <<12, 11, 8, 10, 10, 90>>,
                  types |-> <<"electric">>,
                  moves |-> <<MoveUrl("nuzzle"), MoveUrl("tackle"), MoveUrl("growl")>>],
      cinder |-> [name |-> "cinder", stats |-> <<16, 10, 9, 10, 10, 90>>,
                  types |-> <<"fire", "flying">>,
                  moves |-> <<MoveUrl("ember"), MoveUrl("splash")>>],
      toxo   |-> [name |-> "toxo", stats |-> <<14, 9, 10, 10, 10, 60>>,
                  types |-> <<"poison", "ground">>,
                  moves |-> <<MoveUrl("sting"), MoveUrl("rush"), MoveUrl("powder"),
                              MoveUrl("lava")>>],
      idle   |-> [name |-> "idle", stats |-> <<10, 5, 5, 10, 10, 70>>,
                  types |-> <<"normal">>,
                  moves |-> <<MoveUrl("growl"), MoveUrl("splash")>>],
      egg    |-> [name |-> "egg", stats |-> <<8, 5, 6, 10, 10, 30>>,
                  types |-> <<"ghost">>,
                  moves |-> <<BlankUrl>>] ]

\* str.lower() on the strings the model uses: all are lower case already but
\* the two written with a capital
Lower(s) == CASE s = "Sparky" -> "sparky" [] s = "Fire" -> "fire" [] OTHER -> s

\* str.capitalize(): the first character in upper case, the rest in lower
\* case.  It depends on Lower(s) alone; the model keeps it as that tagged value.
Capitalize(s) == <<"capitalize", Lower(s)>>

\* what the caller may pass: a creature's name (one in capitals), or a name
\* the provider does not know
Names == {"Sparky", "cinder", "toxo", "idle", "egg", "missingno"}

\* _make_api_request(url): the parsed payload, or None on a request error,
\* a timeout or a 4xx/5xx status.  Any request can fail.
Payload(url) ==
    IF url = BlankUrl THEN {}
    ELSE IF url[2] = "pokemon" /\ url[3] \in DOMAIN PokemonCatalogue
         THEN {Some(PokemonCatalogue[url[3]])}
    ELSE IF url[2] = "move" /\ url[3] \in DOMAIN MoveCatalogue
         THEN {Some(MoveCatalogue[url[3]])}
    ELSE {}

_make_api_request(url) == {None} \cup Payload(url)

(***************************************************************************)
(* State of one simulate_battle call (and of one get_type_effectiveness    *)
(* call, further down).                                                    *)
(***************************************************************************)
VARIABLES
    pc,             \* where the call stands
    pokemon1_name,  \* the arguments
    pokemon2_name,
    p1_data,        \* the provider's answers for the two creatures
    p2_data,
    pokemon,        \* <<pokemon1, pokemon2>> once created, <<>> before
    attacker,       \* which of the two `attacker` refers to (0 before the battle)
    turn,
    move_data,      \* the move selected in this turn, None while selecting
    turn_log,       \* the lines battle_log got since the last "--- Turn n ---"
    winner,         \* which of the two `winner` refers to (0: none yet)
    result,         \* the returned text: None, or Some([text, args])
    request_failed, \* a move request of this battle has returned None
    attacking_type, \* get_type_effectiveness: arguments and returned text
    defending_type,
    type_result,
    pokemon_name,   \* get_pokemon_weaknesses_and_resistances: argument,
    pokemon_data,   \* the provider's answer,
    weaknesses,     \* the three lists
    resistances,
    immunities,
    report,         \* and the returned text
    executed        \* history: the action phases executed in this battle

vars == <<pc, pokemon1_name, pokemon2_name, p1_data, p2_data, pokemon, attacker,
          turn, move_data, turn_log, winner, result, request_failed,
          attacking_type, defending_type, type_result, pokemon_name, pokemon_data,
          weaknesses, resistances, immunities, report, executed>>

battle_vars == <<pc, pokemon1_name, pokemon2_name, p1_data, p2_data, pokemon,
                 attacker, turn, move_data, turn_log, winner, result,
                 request_failed>>

type_vars == <<attacking_type, defending_type, type_result>>

analysis_vars == <<pokemon_name, pokemon_data, weaknesses, resistances, immunities,
                   report>>

\* the state of get_pokemon_weaknesses_and_resistances before a call
NoAnalysis ==
    /\ pokemon_name = ""
    /\ pokemon_data = None
    /\ weaknesses = <<>>
    /\ resistances = <<>>
    /\ immunities = <<>>
    /\ report = None

\* the longest battle the model follows through paralysis skips
MaxTurn == 6

defender == 3 - attacker

\* an f-string: its fixed text and the values interpolated into it
Text(text, args) == Some([text |-> text, args |-> args])

Line(ev, who, n) == [ev |-> ev, who |-> who, n |-> n]

\* lines 172-191: the state object of one combatant
MakePokemon(data) ==
    [ name    |-> Capitalize(data.name),
      hp      |-> data.stats[1],
      attack  |-> data.stats[2],
      defense |-> data.stats[3],
      speed   |-> data.stats[6],
      types   |-> data.types,
      moves   |-> SelectSeq(data.moves, LAMBDA u : u # BlankUrl),
      status  |-> "none" ]

\* while pokemon1['hp'] > 0 and pokemon2['hp'] > 0
LoopCond(p) == p[1].hp > 0 /\ p[2].hp > 0

\* (variant: a tie goes to pokemon2, `>` for `>=`)
FirstAttackerStrict(p) == IF p[1].speed > p[2].speed THEN 1 ELSE 2

\* line 194: pokemon1 attacks first unless pokemon2 is strictly faster
FirstAttacker(p) == IF p[1].speed >= p[2].speed THEN 1 ELSE 2

\* (variant: the test looks at pokemon2's hp)
WinnerSwapped(p) == IF p[2].hp > 0 THEN 1 ELSE 2

\* line 273: winner = pokemon1 if pokemon1['hp'] > 0 else pokemon2
Winner(p) == IF p[1].hp > 0 THEN 1 ELSE 2

\* (variant: `>= 0` for `> 0`)
UsableNonNegative(potential_move_data) ==
    /\ potential_move_data # None
    /\ potential_move_data[1].power # None
    /\ potential_move_data[1].power[1] >= 0

\* (variant: the test for a positive power is left out)
UsableAnyPower(potential_move_data) ==
    /\ potential_move_data # None
    /\ potential_move_data[1].power # None

\* the move passes the selection filter of line 212
Usable(potential_move_data) ==
    /\ potential_move_data # None
    /\ potential_move_data[1].power # None
    /\ potential_move_data[1].power[1] > 0

\* the truth values `random.random() < chance / 100.0` can take
AilmentRoll(chance) == {b \in BOOLEAN : (b => chance > 0) /\ (~b => chance < 100)}

Init ==
    /\ pc = "fetch1"
    /\ pokemon1_name \in Names
    /\ pokemon2_name \in Names
    /\ p1_data = None
    /\ p2_data = None
    /\ pokemon = <<>>
    /\ attacker = 0
    /\ turn = 0
    /\ move_data = None
    /\ turn_log = <<>>
    /\ winner = 0
    /\ result = None
    /\ request_failed = FALSE
    /\ attacking_type = ""
    /\ defending_type = ""
    /\ type_result = None
    /\ NoAnalysis
    /\ executed = 0

\* line 165
FetchFirst ==
    /\ pc = "fetch1"
    /\ \E r \in _make_api_request(PokemonUrl(Lower(pokemon1_name))) : p1_data' = r
    /\ pc' = "fetch2"
    /\ UNCHANGED <<pokemon1_name, pokemon2_name, p2_data, pokemon, attacker, turn,
                   move_data, turn_log, winner, result, request_failed, type_vars, analysis_vars,
                   executed>>

\* line 166
FetchSecond ==
    /\ pc = "fetch2"
    /\ \E r \in _make_api_request(PokemonUrl(Lower(pokemon2_name))) : p2_data' = r
    /\ pc' = "fetched"
    /\ UNCHANGED <<pokemon1_name, pokemon2_name, p1_data, pokemon, attacker, turn,
                   move_data, turn_log, winner, result, request_failed, type_vars, analysis_vars,
                   executed>>

\* (variant: the function returns without the error text)
AbortSilently ==
    /\ pc = "fetched"
    /\ p1_data = None \/ p2_data = None
    /\ pc' = "returned"
    /\ UNCHANGED <<pokemon1_name, pokemon2_name, p1_data, p2_data, pokemon, attacker,
                   turn, move_data, turn_log, winner, result, request_failed,
                   type_vars, analysis_vars,
                   executed>>

\* lines 168-169
AbortOnMissing ==
    /\ pc = "fetched"
    /\ p1_data = None \/ p2_data = None
    /\ result' = Text("Error: Could not fetch data for one or both Pokemon. Please check the names.", <<>>)
    /\ pc' = "returned"
    /\ UNCHANGED <<pokemon1_name, pokemon2_name, p1_data, p2_data, pokemon, attacker,
                   turn, move_data, turn_log, winner, request_failed, type_vars, analysis_vars,
                   executed>>

\* lines 171-199: create the two combatants, decide who attacks first, enter
\* the loop
Setup ==
    /\ pc = "fetched"
    /\ p1_data # None /\ p2_data # None
    /\ pokemon' = <<MakePokemon(p1_data[1]), MakePokemon(p2_data[1])>>
    /\ attacker' = FirstAttacker(pokemon')
    /\ turn' = 1
    /\ turn_log' = <<>>
    /\ pc' = IF LoopCond(pokemon') THEN "turn" ELSE "over"
    /\ UNCHANGED <<pokemon1_name, pokemon2_name, p1_data, p2_data, move_data,
                   winner, result, request_failed, type_vars, analysis_vars,
                   executed>>

\* (variant: the skip does not look at the attacker's status)
ParalysisSkipAny ==
    /\ pc = "turn"
    /\ turn < MaxTurn
    /\ turn_log' = <<Line("is paralyzed and can't move!", attacker, 0)>>
    /\ pc' = "tick"
    /\ UNCHANGED <<pokemon1_name, pokemon2_name, p1_data, p2_data, pokemon, attacker,
                   turn, move_data, winner, result, request_failed, type_vars,
                   analysis_vars, executed>>

\* lines 203-204: the paralysed attacker loses its action (random() < 0.25)
ParalysisSkip ==
    /\ pc = "turn"
    /\ pokemon[attacker].status = "paralysis"
    /\ turn < MaxTurn
    /\ turn_log' = <<Line("is paralyzed and can't move!", attacker, 0)>>
    /\ pc' = "tick"
    /\ UNCHANGED <<pokemon1_name, pokemon2_name, p1_data, p2_data, pokemon, attacker,
                   turn, move_data, winner, result, request_failed, type_vars, analysis_vars,
                   executed>>

\* lines 205-208: the attacker acts (not paralysed, or random() >= 0.25)
StartAction ==
    /\ pc = "turn"
    /\ move_data' = None
    /\ turn_log' = <<>>
    /\ pc' = "select"
    /\ UNCHANGED <<pokemon1_name, pokemon2_name, p1_data, p2_data, pokemon, attacker,
                   turn, winner, result, request_failed, type_vars, analysis_vars,
                   executed>>

\* lines 209-213, one round of the selection loop: draw a URL, request it,
\* keep the answer if it is a move with power.  random.choice of an empty pool
\* raises IndexError, which ends the call.
DrawMove ==
    /\ pc = "select"
    /\ IF pokemon[attacker].moves = <<>>
       THEN /\ pc' = "raised"
            /\ UNCHANGED <<move_data, request_failed>>
       ELSE \E i \in 1..Len(pokemon[attacker].moves) :
            \E potential_move_data \in _make_api_request(pokemon[attacker].moves[i]) :
                /\ request_failed' = (request_failed \/ potential_move_data = None)
                /\ IF Usable(potential_move_data)
                   THEN move_data' = potential_move_data /\ pc' = "attack"
                   ELSE move_data' = move_data /\ pc' = "select"
    /\ UNCHANGED <<pokemon1_name, pokemon2_name, p1_data, p2_data, pokemon, attacker,
                   turn, turn_log, winner, result, type_vars, analysis_vars,
                   executed>>

\* lines 232-237: the damage of a hit, halved for a burned attacker
HitDamage(move_power, attacker_state, defender_state, effectiveness) ==
    IF attacker_state.status = "burn"
    THEN BurnDrop(Damage(move_power, attacker_state.attack, defender_state.defense,
                         effectiveness))
    ELSE Damage(move_power, attacker_state.attack, defender_state.defense,
                effectiveness)

\* (variant: the ailment is rolled for whatever the defender's status is)
ApplyHitOverwrite(move, note, damage) ==
    LET hp == pokemon[defender].hp - damage
    IN  IF hp <= 0
        THEN /\ pokemon' = [pokemon EXCEPT ![defender].hp = hp]
             /\ turn_log' = turn_log \o <<Line("took damage", defender, damage),
                                          Line("fainted!", defender, 0)>>
             /\ pc' = "over"
        ELSE \E roll \in (IF /\ move.meta # None
                             /\ move.meta[1].ailment \in {"paralysis", "burn", "poison"}
                          THEN AilmentRoll(move.meta[1].ailment_chance)
                          ELSE {FALSE}) :
             /\ pokemon' = [pokemon EXCEPT ![defender].hp = hp,
                                           ![defender].status =
                                               IF roll THEN move.meta[1].ailment ELSE @]
             /\ turn_log' = turn_log \o <<Line("took damage", defender, damage)>>
             /\ pc' = "tick"

\* (variant: the faint check after the hit is left out)
ApplyHitNoBreak(move, note, damage) ==
    \E roll \in (IF /\ move.meta # None
                    /\ pokemon[defender].status = "none"
                    /\ move.meta[1].ailment \in {"paralysis", "burn", "poison"}
                 THEN AilmentRoll(move.meta[1].ailment_chance)
                 ELSE {FALSE}) :
        /\ pokemon' = [pokemon EXCEPT ![defender].hp = @ - damage,
                                      ![defender].status =
                                          IF roll THEN move.meta[1].ailment ELSE @]
        /\ turn_log' = turn_log \o <<Line("used", attacker, 0),
                                     Line("took damage", defender, damage)>>
        /\ pc' = "tick"

\* lines 218-230 and 239-253: log the hit, take the damage off the defender,
\* end the battle if it fainted, otherwise roll for the move's ailment
ApplyHit(move, note, damage) ==
    LET hp    == pokemon[defender].hp - damage
        lines == <<Line("used", attacker, 0)>>
                 \o (IF note = "" THEN <<>> ELSE <<Line(note, defender, 0)>>)
                 \o <<Line("took damage", defender, damage)>>
    IN  IF hp <= 0
        THEN /\ pokemon' = [pokemon EXCEPT ![defender].hp = hp]
             /\ turn_log' = turn_log \o lines \o <<Line("fainted!", defender, 0)>>
             /\ pc' = "over"
        ELSE \E roll \in (IF /\ move.meta # None
                             /\ pokemon[defender].status = "none"
                             /\ move.meta[1].ailment \in {"paralysis", "burn", "poison"}
                          THEN AilmentRoll(move.meta[1].ailment_chance)
                          ELSE {FALSE}) :
             /\ pokemon' = [pokemon EXCEPT ![defender].hp = hp,
                                           ![defender].status =
                                               IF roll THEN move.meta[1].ailment ELSE @]
             /\ turn_log' = turn_log \o lines
                    \o (IF roll THEN <<Line("was afflicted", defender, 0)>> ELSE <<>>)
             /\ pc' = "tick"

\* (variant: the move misses and the attacker starts its turn again)
AttackMisses ==
    /\ pc = "attack"
    /\ pc' = "turn"
    /\ UNCHANGED <<pokemon1_name, pokemon2_name, p1_data, p2_data, pokemon, attacker,
                   turn, move_data, turn_log, winner, result, request_failed,
                   type_vars, analysis_vars,
                   executed>>

\* lines 215-253: the selected move hits the defender
Attack ==
    /\ pc = "attack"
    /\ LET effectiveness ==
               Effectiveness(move_data[1].type, pokemon[defender].types)
       IN  ApplyHit(move_data[1], EffectivenessNote(effectiveness),
                    HitDamage(move_data[1].power[1], pokemon[attacker],
                              pokemon[defender], effectiveness))
    /\ executed' = executed + 1
    /\ UNCHANGED <<pokemon1_name, pokemon2_name, p1_data, p2_data, attacker, turn,
                   move_data, winner, result, request_failed, type_vars, analysis_vars>>

\* (variant: paralysis hurts at the end of the turn as poison and burn do)
StatusTickAnyStatus ==
    /\ pc = "tick"
    /\ IF pokemon[attacker].status \in {"poison", "burn", "paralysis"}
       THEN LET status_damage == StatusDamage(IF attacker = 1
                                                 THEN p1_data[1].stats[1]
                                                 ELSE p2_data[1].stats[1])
                hp            == pokemon[attacker].hp - status_damage
            IN  /\ pokemon' = [pokemon EXCEPT ![attacker].hp = hp]
                /\ turn_log' = turn_log
                       \o <<Line("took status damage", attacker, status_damage)>>
                /\ pc' = IF hp <= 0 THEN "over" ELSE "swap"
       ELSE /\ pc' = "swap"
            /\ UNCHANGED <<pokemon, turn_log>>
    /\ UNCHANGED <<pokemon1_name, pokemon2_name, p1_data, p2_data, attacker, turn,
                   move_data, winner, result, request_failed, type_vars, analysis_vars,
                   executed>>

\* (variant: the status damage is an eighth of the attacker's current hp)
StatusTickCurrentHp ==
    /\ pc = "tick"
    /\ IF pokemon[attacker].status \in {"poison", "burn"}
       THEN LET status_damage == StatusDamage(pokemon[attacker].hp)
                hp            == pokemon[attacker].hp - status_damage
            IN  /\ pokemon' = [pokemon EXCEPT ![attacker].hp = hp]
                /\ turn_log' = turn_log
                       \o <<Line("took status damage", attacker, status_damage)>>
                       \o (IF hp <= 0 THEN <<Line("fainted!", attacker, 0)>> ELSE <<>>)
                /\ pc' = IF hp <= 0 THEN "over" ELSE "swap"
       ELSE /\ pc' = "swap"
            /\ UNCHANGED <<pokemon, turn_log>>
    /\ UNCHANGED <<pokemon1_name, pokemon2_name, p1_data, p2_data, attacker, turn,
                   move_data, winner, result, request_failed, type_vars, analysis_vars,
                   executed>>

\* lines 256-265: poison or burn hurts the combatant that was attacker
StatusTick ==
    /\ pc = "tick"
    /\ IF pokemon[attacker].status \in {"poison", "burn"}
       THEN LET original_max_hp == IF pokemon[attacker] = pokemon[1]
                                   THEN p1_data[1].stats[1] ELSE p2_data[1].stats[1]
                status_damage   == StatusDamage(original_max_hp)
                hp              == pokemon[attacker].hp - status_damage
            IN  /\ pokemon' = [pokemon EXCEPT ![attacker].hp = hp]
                /\ turn_log' = turn_log
                       \o <<Line("took status damage", attacker, status_damage)>>
                       \o (IF hp <= 0 THEN <<Line("fainted!", attacker, 0)>> ELSE <<>>)
                /\ pc' = IF hp <= 0 THEN "over" ELSE "swap"
       ELSE /\ pc' = "swap"
            /\ UNCHANGED <<pokemon, turn_log>>
    /\ UNCHANGED <<pokemon1_name, pokemon2_name, p1_data, p2_data, attacker, turn,
                   move_data, winner, result, request_failed, type_vars, analysis_vars,
                   executed>>

\* (variant: the faster combatant attacks in every turn)
RoleSwapBySpeed ==
    /\ pc = "swap"
    /\ attacker' = FirstAttacker(pokemon)
    /\ turn' = turn + 1
    /\ turn_log' = <<>>
    /\ pc' = IF LoopCond(pokemon) THEN "turn" ELSE "over"
    /\ UNCHANGED <<pokemon1_name, pokemon2_name, p1_data, p2_data, pokemon,
                   move_data, winner, result, request_failed, type_vars, analysis_vars,
                   executed>>

\* lines 267-270 and the loop test of line 199; line 200 starts the next
\* turn's part of the log
RoleSwap ==
    /\ pc = "swap"
    /\ attacker' = defender
    /\ turn' = turn + 1
    /\ turn_log' = <<>>
    /\ pc' = IF LoopCond(pokemon) THEN "turn" ELSE "over"
    /\ UNCHANGED <<pokemon1_name, pokemon2_name, p1_data, p2_data, pokemon,
                   move_data, winner, result, request_failed, type_vars, analysis_vars,
                   executed>>

\* lines 272-277
Resolve ==
    /\ pc = "over"
    /\ winner' = Winner(pokemon)
    /\ result' = Text("The winner is {winner['name']}!", <<pokemon[winner'].name>>)
    /\ pc' = "returned"
    /\ UNCHANGED <<pokemon1_name, pokemon2_name, p1_data, p2_data, pokemon, attacker,
                   turn, move_data, turn_log, request_failed, type_vars, analysis_vars,
                   executed>>

\* get_type_effectiveness (lines 280-306)
GetTypeEffectiveness ==
    /\ pc = "query"
    /\ LET a == Lower(attacking_type)
           d == Lower(defending_type)
       IN  IF a \notin DOMAIN TYPE_EFFECTIVENESS
           THEN type_result' = Text("Error: '{attacking_type}' is not a valid Pokemon type.", <<a>>)
           ELSE LET effectiveness == Get(TYPE_EFFECTIVENESS[a], d, x1)
                IN  type_result' =
                        Text("{attacking_type} vs {defending_type}: {result}",
                             <<Capitalize(a), Capitalize(d),
                               IF effectiveness = x2 THEN "Super effective (2x damage)"
                               ELSE IF effectiveness = x05
                                    THEN "Not very effective (0.5x damage)"
                               ELSE IF effectiveness = x0 THEN "No effect (0x damage)"
                               ELSE "Normal effectiveness (1x damage)">>)
    /\ pc' = "answered"
    /\ UNCHANGED <<pokemon1_name, pokemon2_name, p1_data, p2_data, pokemon, attacker,
                   turn, move_data, turn_log, winner, result, request_failed,
                   attacking_type, defending_type, analysis_vars, executed>>

Next ==
    \/ FetchFirst
    \/ FetchSecond
    \/ AbortOnMissing
    \/ Setup
    \/ ParalysisSkip
    \/ StartAction
    \/ DrawMove
    \/ Attack
    \/ StatusTick
    \/ RoleSwap
    \/ Resolve

Spec == Init /\ [][Next]_vars

(***************************************************************************)
(* The attack phase on its own.  CalcSpec starts in the states in which a  *)
(* move has just been selected, for a grid of powers, attacks and          *)
(* defenses (around the values of the worked example of the damage         *)
(* formula), one pair of types per effectiveness value and an attacker     *)
(* with and without a burn; its only step is Attack.                       *)
(***************************************************************************)
PowerSpan == 3
AttackSpan == 5
DefenseSpan == 5

Powers == {60, 70} \cup (35 .. 35 + PowerSpan)
Attacks == {100} \cup (73 .. 73 + AttackSpan)
Defenses == {50} \cup (12 .. 12 + DefenseSpan)

\* <<move type, defender's types>>, one for each of 0, 0.25, 0.5, 1, 2 and 4
TypeCases ==
    { <<"normal", <<"ghost">>>>, <<"fire", <<"fire", "water">>>>,
      <<"fire", <<"water">>>>, <<"normal", <<"normal">>>>,
      <<"fire", <<"grass">>>>, <<"fire", <<"grass", "ice">>>> }

Creature(name, hp, attack, defense, speed, types) ==
    [name |-> name, stats |-> <<hp, attack, defense, 10, 10, speed>>,
     types |-> types, moves |-> <<MoveUrl("tackle")>>]

\* the state in which pokemon1, with `status`, is about to hit pokemon2 with
\* `move`
AttackPhase(move, data1, data2, status) ==
    /\ pc = "attack"
    /\ pokemon1_name = data1.name
    /\ pokemon2_name = data2.name
    /\ p1_data = Some(data1)
    /\ p2_data = Some(data2)
    /\ pokemon = <<[MakePokemon(data1) EXCEPT !.status = status], MakePokemon(data2)>>
    /\ attacker = 1
    /\ turn = IF status = "none" THEN 1 ELSE 3
    /\ move_data = Some(move)
    /\ turn_log = <<>>
    /\ winner = 0
    /\ result = None
    /\ request_failed = FALSE
    /\ attacking_type = ""
    /\ defending_type = ""
    /\ type_result = None
    /\ NoAnalysis
    /\ executed = 0

CalcInit ==
    \E power \in Powers, attack \in Attacks, defense \in Defenses,
       types \in TypeCases, status \in {"none", "burn"} :
        AttackPhase([name |-> "move", power |-> Some(power), type |-> types[1],
                     meta |-> None],
                    Creature("first", 255, attack, 60, 90, <<"normal">>),
                    Creature("second", 255, 60, defense, 60, types[2]),
                    status)

CalcNext == Attack

CalcSpec == CalcInit /\ [][CalcNext]_vars

(***************************************************************************)
(* The type chart on its own.  TypeSpec starts either in an attack phase,  *)
(* for every type of move against every defender of one or two types, or   *)
(* in a get_type_effectiveness call for every pair of types.  "shadow" is  *)
(* a type the chart does not list; "Fire" is an argument in capitals.      *)
(***************************************************************************)
ChartTypes == DOMAIN TYPE_EFFECTIVENESS
AllTypes == ChartTypes \cup {"shadow"}
TypeLists == {<<d>> : d \in AllTypes} \cup {<<d, e>> : d \in AllTypes, e \in AllTypes}

TypeInit ==
    \/ \E move_type \in AllTypes, types \in TypeLists :
           AttackPhase([name |-> "move", power |-> Some(100), type |-> move_type,
                        meta |-> None],
                       Creature("first", 255, 50, 50, 90, <<"normal">>),
                       Creature("second", 255, 50, 50, 60, types),
                       "none")
    \/ /\ pc = "query"
       /\ attacking_type \in AllTypes \cup {"Fire"}
       /\ defending_type \in AllTypes \cup {"Fire"}
       /\ type_result = None
       /\ pokemon1_name = "" /\ pokemon2_name = ""
       /\ p1_data = None /\ p2_data = None
       /\ pokemon = <<>> /\ attacker = 0 /\ turn = 0
       /\ move_data = None /\ turn_log = <<>> /\ winner = 0
       /\ result = None /\ request_failed = FALSE
       /\ NoAnalysis
       /\ executed = 0

TypeNext == Attack \/ GetTypeEffectiveness

TypeSpec == TypeInit /\ [][TypeNext]_vars

(***************************************************************************)
(* get_pokemon_weaknesses_and_resistances (lines 309-362).                 *)
(***************************************************************************)
\* 0.25 and 4.0
x025 == [m |-> <<1>>, e |-> -2]
x4 == [m |-> <<1>>, e |-> 2]

\* TYPE_EFFECTIVENESS.keys(): the chart's keys in the order they are written
TypeKeys ==
    <<"normal", "fire", "water", "electric", "grass", "ice", "fighting", "poison",
      "ground", "flying", "psychic", "bug", "rock", "ghost", "dragon", "dark",
      "steel", "fairy">>

\* total_effectiveness = 1.0; for defending_type in pokemon_types:
\*     total_effectiveness *= TYPE_EFFECTIVENESS[attacking_type].get(defending_type, 1.0)
RECURSIVE TotalEffectivenessLoop(_, _, _)
TotalEffectivenessLoop(total_effectiveness, attacking_type_key, pokemon_types) ==
    IF pokemon_types = <<>> THEN total_effectiveness
    ELSE TotalEffectivenessLoop(
             FMul(total_effectiveness,
                  Get(TYPE_EFFECTIVENESS[attacking_type_key], Head(pokemon_types), x1)),
             attacking_type_key, Tail(pokemon_types))

TotalEffectiveness(attacking_type_key, pokemon_types) ==
    TotalEffectivenessLoop(x1, attacking_type_key, pokemon_types)

\* (variant: the `and total_effectiveness > 0` of the second test is left out)
ClassifyNoPositive(total_effectiveness) ==
    IF ~FLess(total_effectiveness, x2) THEN "weaknesses"
    ELSE IF ~FLess(x05, total_effectiveness) THEN "resistances"
    ELSE IF total_effectiveness = x0 THEN "immunities"
    ELSE "none"

\* lines 330-338: the list the attacking type is appended to
Classify(total_effectiveness) ==
    IF ~FLess(total_effectiveness, x2) THEN "weaknesses"
    ELSE IF ~FLess(x05, total_effectiveness) /\ FLess(x0, total_effectiveness)
         THEN "resistances"
    ELSE IF total_effectiveness = x0 THEN "immunities"
    ELSE "none"

\* lines 331-338: what is appended for the attacking type
Entry(attacking_type_key, total_effectiveness) ==
    CASE Classify(total_effectiveness) = "weaknesses" ->
             <<Capitalize(attacking_type_key),
               IF total_effectiveness = x4 THEN "4x" ELSE "2x">>
      [] Classify(total_effectiveness) = "resistances" ->
             <<Capitalize(attacking_type_key),
               IF total_effectiveness = x025 THEN "0.25x" ELSE "0.5x">>
      [] OTHER -> Capitalize(attacking_type_key)

\* lines 325-338: one of the three lists after the loop over the chart's keys
RECURSIVE Breakdown(_, _, _)
Breakdown(list, keys, pokemon_types) ==
    IF keys = <<>> THEN <<>>
    ELSE (IF Classify(TotalEffectiveness(Head(keys), pokemon_types)) = list
          THEN <<Entry(Head(keys), TotalEffectiveness(Head(keys), pokemon_types))>>
          ELSE <<>>)
         \o Breakdown(list, Tail(keys), pokemon_types)

\* ', '.join(list), or the "None" the report shows for an empty list
Joined(list) == IF list = <<>> THEN <<"None">> ELSE <<"join", list>>

\* line 317
AnalyseFetch ==
    /\ pc = "analyse"
    /\ \E r \in _make_api_request(PokemonUrl(Lower(pokemon_name))) : pokemon_data' = r
    /\ pc' = "analysing"
    /\ UNCHANGED <<pokemon1_name, pokemon2_name, p1_data, p2_data, pokemon, attacker,
                   turn, move_data, turn_log, winner, result, request_failed,
                   type_vars, pokemon_name, weaknesses, resistances,
                   immunities, report, executed>>

\* lines 318-319
AnalyseAbort ==
    /\ pc = "analysing"
    /\ pokemon_data = None
    /\ report' = Text("Error: Could not find data for Pokemon '{pokemon_name}'. Please check the spelling.",
                      <<pokemon_name>>)
    /\ pc' = "reported"
    /\ UNCHANGED <<pokemon1_name, pokemon2_name, p1_data, p2_data, pokemon, attacker,
                   turn, move_data, turn_log, winner, result, request_failed,
                   type_vars, pokemon_name, pokemon_data, weaknesses,
                   resistances, immunities, executed>>

\* lines 321-362
Analyse ==
    /\ pc = "analysing"
    /\ pokemon_data # None
    /\ LET pokemon_types == pokemon_data[1].types
       IN  /\ weaknesses' = Breakdown("weaknesses", TypeKeys, pokemon_types)
           /\ resistances' = Breakdown("resistances", TypeKeys, pokemon_types)
           /\ immunities' = Breakdown("immunities", TypeKeys, pokemon_types)
           /\ report' = Text("--- Type Analysis for {name} --- Types: {types} Weaknesses: {weaknesses} Resistances: {resistances} Immunities: {immunities}",
                             <<Capitalize(pokemon_data[1].name),
                               [i \in 1..Len(pokemon_types) |->
                                    Capitalize(pokemon_types[i])],
                               Joined(weaknesses'), Joined(resistances'),
                               Joined(immunities')>>)
    /\ pc' = "reported"
    /\ UNCHANGED <<pokemon1_name, pokemon2_name, p1_data, p2_data, pokemon, attacker,
                   turn, move_data, turn_log, winner, result, request_failed,
                   type_vars, pokemon_name, pokemon_data, executed>>

\* the defenders analysed: every creature of the provider by name, and a
\* creature of every list of one or two types and of some lists of three
TripleTypes == {"fire", "water", "grass", "ghost"}

AnalysisTypeLists ==
    TypeLists \cup {<<a, b, c>> : a \in TripleTypes, b \in TripleTypes, c \in TripleTypes}

AnalysisInit ==
    /\ pokemon1_name = "" /\ pokemon2_name = ""
    /\ p1_data = None /\ p2_data = None
    /\ pokemon = <<>> /\ attacker = 0 /\ turn = 0
    /\ move_data = None /\ turn_log = <<>> /\ winner = 0
    /\ result = None /\ request_failed = FALSE
    /\ attacking_type = "" /\ defending_type = "" /\ type_result = None
    /\ executed = 0
    /\ weaknesses = <<>> /\ resistances = <<>> /\ immunities = <<>>
    /\ report = None
    /\ \/ /\ pc = "analyse"
          /\ pokemon_name \in Names
          /\ pokemon_data = None
       \/ /\ pc = "analysing"
          /\ pokemon_name = "any"
          /\ \E types \in AnalysisTypeLists :
                 pokemon_data = Some(Creature("any", 60, 60, 60, 60, types))

AnalysisNext == AnalyseFetch \/ AnalyseAbort \/ Analyse

AnalysisSpec == AnalysisInit /\ [][AnalysisNext]_vars

(***************************************************************************)
(* Fairness.  The call keeps running: it does not rest for ever at a       *)
(* statement it can execute.  A move selection that can find a usable move *)
(* does find one; a paralysed attacker is not skipped for ever.            *)
(*                                                                         *)
(* Attack and StatusTick are enabled exactly when pc = "attack" and        *)
(* pc = "tick" (their other conjuncts assign the primed variables), so     *)
(* weak fairness of the two is written with that guard in the place of     *)
(* ENABLED: WF_v(A) is []<>~ENABLED <<A>>_v \/ []<><<A>>_v.                 *)
(***************************************************************************)
DrawUsable == DrawMove /\ pc' = "attack"

LiveSpec ==
    /\ Init
    /\ [][Next]_vars
    /\ WF_vars(FetchFirst)
    /\ WF_vars(FetchSecond)
    /\ WF_vars(AbortOnMissing)
    /\ WF_vars(Setup)
    /\ SF_vars(StartAction)
    /\ SF_vars(DrawUsable)
    /\ ([]<>(pc # "attack") \/ []<><<Attack>>_vars)
    /\ ([]<>(pc # "tick") \/ []<><<StatusTick>>_vars)
    /\ WF_vars(RoleSwap)
    /\ WF_vars(Resolve)

(***************************************************************************)
(* Properties                                                              *)
(***************************************************************************)
Resolved == pc = "returned" /\ winner # 0

FaintLogged(who) ==
    \E i \in 1..Len(turn_log) : turn_log[i] = Line("fainted!", who, 0)

\* the power the provider's payload gives a move URL, 0 when it gives none
PayloadPower(url) ==
    IF \E r \in Payload(url) : r[1].power # None
    THEN (CHOOSE r \in Payload(url) : TRUE)[1].power[1]
    ELSE 0

HasDamagingMove(p) == \E i \in 1..Len(p.moves) : PayloadPower(p.moves[i]) > 0

HasUnusableMove(p) == \E i \in 1..Len(p.moves) : PayloadPower(p.moves[i]) <= 0

\* C1: when the battle is resolved (and whenever the loop has been left),
\* exactly one combatant has hp > 0 and the other hp <= 0; the reported winner
\* is the one with hp > 0, and the one logged as fainted is the other.
C1_ExactlyOneSurvivor ==
    /\ pc = "over" =>
           \E i \in {1, 2} : pokemon[i].hp > 0 /\ pokemon[3 - i].hp <= 0
    /\ Resolved =>
           /\ pokemon[winner].hp > 0
           /\ pokemon[3 - winner].hp <= 0
           /\ FaintLogged(3 - winner)
           /\ ~FaintLogged(winner)

C1_Witness == Resolved /\ winner = 2 /\ pokemon[1].hp <= 0 /\ pokemon[2].hp > 0

\* C2: if both combatants' pools hold a damaging move (so that every
\* selection can terminate), a battle that has entered the loop is eventually
\* resolved, with one combatant at hp > 0 and the other at hp <= 0.
C2_BattleTerminates ==
    (pc = "turn" /\ HasDamagingMove(pokemon[1]) /\ HasDamagingMove(pokemon[2]))
        ~> (Resolved /\ pokemon[winner].hp > 0 /\ pokemon[3 - winner].hp <= 0)

C2_Witness ==
    /\ Resolved
    /\ HasDamagingMove(pokemon[1]) /\ HasDamagingMove(pokemon[2])
    /\ turn >= 4
    /\ pokemon[3 - winner].status = "paralysis"

\* C3: once a request for a move has failed during the battle, the battle is
\* never resolved with a winner.
C3_MoveFaultIsFatal == request_failed => winner = 0

FetchFailed ==
    \/ pc # "fetch1" /\ p1_data = None
    \/ pc \notin {"fetch1", "fetch2"} /\ p2_data = None

Range(seq) == {seq[i] : i \in 1..Len(seq)}

NamedInResult(name) ==
    \E n \in {name, Lower(name)} : n \in Range(result[1].args)
                                   \/ Capitalize(n) \in Range(result[1].args)

\* C4 as stated: the error returned when a creature's data could not be
\* fetched names that creature.
C4_ErrorNamesCreature ==
    (pc = "returned" /\ FetchFailed) =>
        /\ result # None
        /\ p1_data = None => NamedInResult(pokemon1_name)
        /\ p2_data = None => NamedInResult(pokemon2_name)

\* C4: if the lookup of either creature fails, the call ends before the
\* loop: the second lookup is still made, no combatant is created, no turn
\* starts, nothing is logged, no move is requested and no winner is set; the
\* call returns the one fixed error text, which names no creature.
C4_AbortBeforeLoop ==
    FetchFailed =>
        /\ pc \in {"fetch2", "fetched", "returned"}
        /\ pokemon = <<>> /\ attacker = 0 /\ turn = 0 /\ turn_log = <<>>
        /\ move_data = None /\ ~request_failed /\ winner = 0
        /\ pc = "returned" =>
               result = Text("Error: Could not fetch data for one or both Pokemon. Please check the names.", <<>>)
        /\ pc # "returned" => result = None

C4_Witness ==
    /\ pc = "returned" /\ p1_data # None /\ p2_data = None /\ result # None
    /\ Lower(pokemon2_name) \in DOMAIN PokemonCatalogue

\* C5: a move that reaches the attack has a power that is present and
\* strictly positive, also when the attacker's pool holds moves without one.
C5_SelectedMoveHasPower ==
    /\ pc = "attack" => move_data # None
    /\ move_data # None =>
           move_data[1].power # None /\ move_data[1].power[1] > 0

C5_Witness ==
    /\ pc = "attack" /\ request_failed
    /\ HasUnusableMove(pokemon[attacker])

\* C6: while the attacker's non-empty pool holds no damaging move, a
\* selection that has started never ends: every step leaves the call in the
\* selection loop, with no winner and nothing returned or raised.
C6_SelectionNeverEnds ==
    [][(/\ pc = "select"
        /\ pokemon[attacker].moves # <<>>
        /\ ~HasDamagingMove(pokemon[attacker]))
       => (pc' = "select" /\ winner' = 0 /\ result' = None)]_vars

C6_Witness ==
    /\ pc = "select" /\ request_failed /\ turn = 2
    /\ pokemon[attacker].moves # <<>>
    /\ ~HasDamagingMove(pokemon[attacker])

\* C7: in the first turn the attacker is at least as fast as the defender,
\* and it is pokemon1 when the two speeds are equal.
C7_FasterFirstTieToFirst ==
    (turn = 1 /\ pokemon # <<>>) =>
        /\ pokemon[attacker].speed >= pokemon[defender].speed
        /\ pokemon[1].speed = pokemon[2].speed => attacker = 1

C7_Witness ==
    /\ turn = 1 /\ pc = "turn" /\ attacker = 1
    /\ pokemon[1].speed = pokemon[2].speed
    /\ pokemon[1].name # pokemon[2].name

HitDone ==
    /\ pc \in {"tick", "over"}
    /\ \E i \in 1..Len(turn_log) : turn_log[i].ev = "took damage"

HitLine == turn_log[CHOOSE i \in 1..Len(turn_log) : turn_log[i].ev = "took damage"]

NoteLogged(note) == \E i \in 1..Len(turn_log) : turn_log[i].ev = note

\* twice the chart's multiplier of attacking type a against defending type d,
\* read off the chart entry by entry; a pair the chart does not list counts 1
Twice(a, d) ==
    IF a \in DOMAIN TYPE_EFFECTIVENESS /\ d \in DOMAIN TYPE_EFFECTIVENESS[a]
    THEN IF TYPE_EFFECTIVENESS[a][d] = x2 THEN 4
         ELSE IF TYPE_EFFECTIVENESS[a][d] = x05 THEN 1
         ELSE IF TYPE_EFFECTIVENESS[a][d] = x0 THEN 0
         ELSE 2
    ELSE 2

\* the exact product, as a fraction num / den, of the multipliers of a
\* against each type of the list
RECURSIVE ProductNum(_, _)
ProductNum(a, types) ==
    IF types = <<>> THEN 1 ELSE Twice(a, Head(types)) * ProductNum(a, Tail(types))

ProductDen(types) == 2 ^ Len(types)

\* floor(((2/5 + 2) * power * (attack / defense)) / 50 * (num / den) + 2) in
\* exact arithmetic: (2/5 + 2) / 50 is 6 / 125
RealDamage(power, attack, defense, num, den) ==
    ((6 * power * attack * num) \div (125 * defense * den)) + 2

\* C8 as stated: the damage a hit is logged with is the floor of the formula's
\* value in real arithmetic, and the floor of half of it for a burned attacker.
C8_DamageIsRealFloor ==
    HitDone =>
        LET real == RealDamage(move_data[1].power[1], pokemon[attacker].attack,
                               pokemon[defender].defense,
                               ProductNum(move_data[1].type, pokemon[defender].types),
                               ProductDen(pokemon[defender].types))
        IN  HitLine.n = IF pokemon[attacker].status = "burn" THEN real \div 2 ELSE real

\* C9: with the other inputs and the burn status fixed, the damage of a hit
\* does not fall when the move's power or the attacker's attack grows by one,
\* and does not grow when the defender's defense grows by one.
C9_DamageMonotone ==
    HitDone =>
        LET effectiveness ==
                Effectiveness(move_data[1].type, pokemon[defender].types)
            power == move_data[1].power[1]
            a == pokemon[attacker]
            d == pokemon[defender]
        IN  /\ HitLine.n = HitDamage(power, a, d, effectiveness)
            /\ HitDamage(power + 1, a, d, effectiveness) >= HitLine.n
            /\ HitDamage(power, [a EXCEPT !.attack = @ + 1], d, effectiveness)
                   >= HitLine.n
            /\ HitDamage(power, a, [d EXCEPT !.defense = @ + 1], effectiveness)
                   <= HitLine.n

C9_Witness ==
    /\ HitDone
    /\ pokemon[attacker].status = "burn"
    /\ LET effectiveness ==
                Effectiveness(move_data[1].type, pokemon[defender].types)
           power == move_data[1].power[1]
           a == pokemon[attacker]
           d == pokemon[defender]
       IN  /\ HitDamage(power + 1, a, d, effectiveness) > HitLine.n
           /\ HitDamage(power, [a EXCEPT !.attack = @ + 1], d, effectiveness)
                  > HitLine.n
           /\ HitDamage(power, a, [d EXCEPT !.defense = @ + 1], effectiveness)
                  < HitLine.n

\* the line the battle logs for a multiplier num / den
ExpectedNote(num, den) ==
    IF num > den THEN "It's super effective!"
    ELSE IF num > 0 /\ num < den THEN "It's not very effective..."
    ELSE IF num = 0 THEN "It doesn't affect the defender..."
    ELSE ""

Notes == {"It's super effective!", "It's not very effective...",
          "It doesn't affect the defender..."}

\* the text get_type_effectiveness gives for twice a multiplier
ExpectedClass(twice) ==
    IF twice = 4 THEN "Super effective (2x damage)"
    ELSE IF twice = 1 THEN "Not very effective (0.5x damage)"
    ELSE IF twice = 0 THEN "No effect (0x damage)"
    ELSE "Normal effectiveness (1x damage)"

\* C10: for a move of a type of the chart, the multiplier a hit is computed
\* with is the product of the chart's entries for the move's type against
\* each of the defender's types, a pair the chart does not list counting 1:
\* the hit is logged with the note and with the damage of that product.  For
\* one defending type get_type_effectiveness answers with the class of the
\* chart's entry, 1 if there is none.
C10_EffectivenessIsProduct ==
    /\ (HitDone /\ move_data[1].type \in DOMAIN TYPE_EFFECTIVENESS) =>
           LET num == ProductNum(move_data[1].type, pokemon[defender].types)
               den == ProductDen(pokemon[defender].types)
           IN  /\ \A note \in Notes : NoteLogged(note) <=> note = ExpectedNote(num, den)
               /\ HitLine.n = RealDamage(move_data[1].power[1],
                                         pokemon[attacker].attack,
                                         pokemon[defender].defense, num, den)
    /\ (pc = "answered" /\ Lower(attacking_type) \in DOMAIN TYPE_EFFECTIVENESS) =>
           type_result =
               Text("{attacking_type} vs {defending_type}: {result}",
                    <<Capitalize(attacking_type), Capitalize(defending_type),
                      ExpectedClass(Twice(Lower(attacking_type),
                                          Lower(defending_type)))>>)

C10_Witness ==
    /\ HitDone
    /\ move_data[1].type = "fire"
    /\ pokemon[defender].types = <<"water", "normal">>
    /\ NoteLogged("It's not very effective...")
    /\ HitLine.n = 4

\* C11 as stated: an attacking type the chart does not list is an error both
\* in get_type_effectiveness and in the action phase of a battle (no hit is
\* made with it), while a defending type the chart does not list is no error
\* and counts 1.
C11_UnknownAttackIsError ==
    /\ (pc = "answered" /\ Lower(attacking_type) \notin DOMAIN TYPE_EFFECTIVENESS) =>
           type_result = Text("Error: '{attacking_type}' is not a valid Pokemon type.",
                              <<Lower(attacking_type)>>)
    /\ (/\ pc = "answered"
        /\ Lower(attacking_type) \in DOMAIN TYPE_EFFECTIVENESS
        /\ Lower(defending_type) \notin DOMAIN TYPE_EFFECTIVENESS) =>
           type_result[1].args[3] = "Normal effectiveness (1x damage)"
    /\ (/\ pc \in {"tick", "over"}
        /\ move_data # None
        /\ move_data[1].type \notin DOMAIN TYPE_EFFECTIVENESS) =>
           ~ \E i \in 1..Len(turn_log) : turn_log[i].ev = "took damage"

\* how often the attacking type t is listed in weaknesses or resistances
\* (entries "Type (multiplier)") and in immunities (entries "Type")
Listed(list, t) == Cardinality({i \in 1..Len(list) : list[i][1] = Capitalize(t)})

ListedImmune(t) ==
    Cardinality({i \in 1..Len(immunities) : immunities[i] = Capitalize(t)})

\* C12: for every defender the breakdown lists an attacking type of the chart
\* once as weak iff its exact compound multiplier is >= 2, once as resistant
\* iff it is > 0 and <= 0.5, once as immune iff it is 0, and in no list
\* otherwise; the lists hold nothing else, so the 18 types fall into exactly
\* one of the four classes.
C12_BreakdownIsPartition ==
    (pc = "reported" /\ pokemon_data # None) =>
        LET types == pokemon_data[1].types
            num(t) == ProductNum(t, types)
            den == ProductDen(types)
        IN  /\ \A t \in DOMAIN TYPE_EFFECTIVENESS :
                   /\ Listed(weaknesses, t) = IF num(t) >= 2 * den THEN 1 ELSE 0
                   /\ Listed(resistances, t) =
                          IF num(t) > 0 /\ 2 * num(t) <= den THEN 1 ELSE 0
                   /\ ListedImmune(t) = IF num(t) = 0 THEN 1 ELSE 0
                   /\ Listed(weaknesses, t) + Listed(resistances, t)
                          + ListedImmune(t) <= 1
            /\ Len(weaknesses) + Len(resistances) + Len(immunities)
                   = Cardinality({t \in DOMAIN TYPE_EFFECTIVENESS : num(t) # den})
            /\ Cardinality(DOMAIN TYPE_EFFECTIVENESS) = 18

C12_Witness ==
    /\ pc = "reported"
    /\ pokemon_data # None
    /\ pokemon_data[1].types = <<"ground", "flying">>
    /\ weaknesses # <<>> /\ resistances # <<>> /\ immunities # <<>>
    /\ Len(weaknesses) + Len(resistances) + Len(immunities) < 18

\* C13: a hit that brings the defender's hp to 0 or below ends the battle at
\* once: the step leaves the loop without an ailment for the defender and
\* without touching the attacker; a status tick that brings the attacker's hp
\* to 0 or below leaves the loop as well; and once the loop is left nothing
\* follows but the result: no tick, no role swap, no further turn.
C13_FaintEndsBattle ==
    [][/\ (pc = "attack" /\ pokemon'[defender].hp <= 0) =>
              /\ pc' = "over"
              /\ pokemon'[defender].status = pokemon[defender].status
              /\ pokemon'[attacker] = pokemon[attacker]
       /\ (pc = "tick" /\ pokemon'[attacker].hp <= 0) => pc' = "over"
       /\ pc = "over" =>
              /\ pc' = "returned"
              /\ pokemon' = pokemon
              /\ attacker' = attacker
              /\ turn' = turn
              /\ turn_log' = turn_log]_vars

C13_Witness ==
    /\ pc = "over"
    /\ move_data[1].name = "nuzzle"
    /\ pokemon[defender].hp <= 0
    /\ pokemon[defender].status = "none"
    /\ pokemon[attacker].status = "poison"
    /\ turn_log[Len(turn_log)] = Line("fainted!", defender, 0)

\* the turn's action phase was skipped by paralysis
Skipped == turn_log # <<>> /\ turn_log[1].ev = "is paralyzed and can't move!"

\* C14: the roles are fixed within a turn and are exchanged at the end of
\* every turn that ends without a faint, skipped or not; so in the odd turns
\* the attacker is the one that attacked first (pokemon1 unless pokemon2 is
\* faster) and in the even turns it is the other one.
C14_RolesAlternate ==
    [][/\ pc = "swap" => (attacker' = 3 - attacker /\ turn' = turn + 1)
       /\ (turn >= 1 /\ turn' = turn) => attacker' = attacker
       /\ turn' >= 1 =>
              attacker' = IF (turn' % 2 = 1) = (pokemon'[1].speed >= pokemon'[2].speed)
                          THEN 1 ELSE 2]_vars

C14_Witness ==
    /\ pc = "swap"
    /\ Skipped
    /\ turn = 2
    /\ pokemon[attacker].speed < pokemon[defender].speed

\* the hp the provider gave combatant i, its maximum
BaseHp(i) == IF i = 1 THEN p1_data[1].stats[1] ELSE p2_data[1].stats[1]

\* C15: the end-of-turn tick touches the turn's attacker alone, and only if
\* its status is poison or burn; it takes floor(max hp / 8) of the attacker's
\* own original maximum hp, and that amount is what the log reports.
C15_TickUsesOwnMaxHp ==
    [][pc = "tick" =>
          /\ pokemon'[defender] = pokemon[defender]
          /\ IF pokemon[attacker].status \in {"poison", "burn"}
             THEN /\ pokemon' = [pokemon EXCEPT
                                     ![attacker].hp = @ - (BaseHp(attacker) \div 8)]
                  /\ Len(turn_log') > Len(turn_log)
                  /\ turn_log'[Len(turn_log) + 1] =
                         Line("took status damage", attacker, BaseHp(attacker) \div 8)
             ELSE pokemon' = pokemon /\ turn_log' = turn_log]_vars

\* a burned combatant 2 has just taken its tick: an eighth of its maximum hp
\* is neither an eighth of its current hp nor an eighth of the other's maximum
C15_Witness ==
    /\ pc = "swap"
    /\ attacker = 2
    /\ pokemon[2].status = "burn"
    /\ turn_log[Len(turn_log)] = Line("took status damage", 2, BaseHp(2) \div 8)
    /\ BaseHp(2) \div 8 # BaseHp(1) \div 8
    /\ BaseHp(2) \div 8 # (pokemon[2].hp + BaseHp(2) \div 8) \div 8

\* C16: a combatant's status is one of none, paralysis, burn and poison and
\* is none when the combatant is created; it changes only in an action
\* phase, only for the defender, only from none and only to the ailment of
\* the move that hit.
C16_StatusSetOnce ==
    [][pokemon' # <<>> =>
          \A i \in {1, 2} :
              /\ pokemon'[i].status \in {"none", "paralysis", "burn", "poison"}
              /\ pokemon = <<>> => pokemon'[i].status = "none"
              /\ (pokemon # <<>> /\ pokemon'[i].status # pokemon[i].status) =>
                     /\ pc = "attack"
                     /\ i = defender
                     /\ pokemon[i].status = "none"
                     /\ move_data[1].meta # None
                     /\ pokemon'[i].status = move_data[1].meta[1].ailment]_vars

\* a poisoned defender has survived a hit by a move that always burns
C16_Witness ==
    /\ pc = "tick"
    /\ move_data[1].name = "lava"
    /\ move_data[1].meta[1].ailment_chance = 100
    /\ pokemon[defender].status = "poison"
    /\ pokemon[attacker].status = "burn"

\* a combatant without its hp and status: what is fixed at its creation
Fixed(p) == [p EXCEPT !.hp = 0, !.status = "none"]

\* C17: a combatant is created with the hp the provider gave it; in every
\* later step its hp is at most what it was (so at most its maximum), every
\* damage logged is >= 0, and its name, attack, defense, speed, types and
\* moves, and the provider's data, stay as they are.
C17_HpOnlyDecreases ==
    [][pokemon' # <<>> =>
          /\ \A i \in 1..Len(turn_log') : turn_log'[i].n >= 0
          /\ \A i \in {1, 2} :
                 /\ pokemon = <<>> =>
                        pokemon'[i].hp = (IF i = 1 THEN p1_data'
                                                  ELSE p2_data')[1].stats[1]
                 /\ pokemon # <<>> =>
                        /\ pokemon'[i].hp <= pokemon[i].hp
                        /\ pokemon'[i].hp <= BaseHp(i)
                        /\ Fixed(pokemon'[i]) = Fixed(pokemon[i])
                        /\ p1_data' = p1_data /\ p2_data' = p2_data]_vars

C17_Witness ==
    /\ pc = "swap"
    /\ turn >= 3
    /\ pokemon[1].hp < BaseHp(1)
    /\ pokemon[2].hp < BaseHp(2)
    /\ \E i \in 1..Len(turn_log) :
           turn_log[i].ev = "took status damage" /\ turn_log[i].n > 0

\* C18: a turn goes from its start either into the move selection or, only
\* for a paralysed attacker, past the action phase; a skipped turn draws and
\* requests no move, executes no action phase and leaves the defender as it
\* is, up to the role swap.
C18_SkipOnlyWhenParalysed ==
    [][/\ pc = "turn" =>
              /\ pc' \in {"select", "tick"}
              /\ pokemon[attacker].status # "paralysis" => pc' = "select"
              /\ pc' = "tick" =>
                     /\ Skipped'
                     /\ pokemon[attacker].status = "paralysis"
                     /\ pokemon' = pokemon
       /\ Skipped =>
              /\ pc \in {"tick", "swap"}
              /\ pc' \notin {"select", "attack"}
              /\ pokemon'[defender] = pokemon[defender]
              /\ move_data' = move_data
              /\ request_failed' = request_failed
              /\ executed' = executed]_vars

C18_Witness ==
    /\ Skipped
    /\ pc = "swap"
    /\ pokemon[attacker].status = "paralysis"
    /\ pokemon[defender].status = "poison"
    /\ pokemon[defender].hp < BaseHp(defender)

HpSum == pokemon[1].hp + pokemon[2].hp

\* C19: every executed action phase takes at least 1 hp off the defender, so
\* the sum of the two hp falls; a hit the defender is immune to takes 2, and 1
\* if the attacker is burned; action phases are executed in Attack steps
\* alone, and there are never more of them than the two maxima add up to.
C19_EveryHitCosts ==
    [][/\ pc = "attack" =>
              /\ executed' = executed + 1
              /\ pokemon'[defender].hp <= pokemon[defender].hp - 1
              /\ HpSum' < HpSum
              /\ ProductNum(move_data[1].type, pokemon[defender].types) = 0 =>
                     pokemon[defender].hp - pokemon'[defender].hp =
                         IF pokemon[attacker].status = "burn" THEN 1 ELSE 2
       /\ pc # "attack" => executed' = executed
       /\ pokemon' # <<>> =>
              executed' <= p1_data'[1].stats[1] + p2_data'[1].stats[1]]_vars

\* a burned attacker has hit a defender that is immune to the move, in the
\* fourth or a later action phase of the battle
C19_Witness ==
    /\ HitDone
    /\ executed >= 4
    /\ pokemon[attacker].status = "burn"
    /\ ProductNum(move_data[1].type, pokemon[defender].types) = 0
    /\ HitLine.n = 1

\* C20: a paralysed combatant stays paralysed and no status damage is ever
\* logged for it; so a turn skipped by paralysis leaves both combatants as
\* they are, reports nothing, and ends with the role swap and the next turn.
C20_SkippedTurnChangesNothing ==
    [][/\ pokemon # <<>> =>
              \A i \in {1, 2} :
                  pokemon[i].status = "paralysis" =>
                      /\ pokemon'[i].status = "paralysis"
                      /\ \A k \in 1..Len(turn_log') :
                             turn_log'[k] # Line("took status damage", i,
                                                 turn_log'[k].n)
       /\ (Skipped \/ Skipped') => pokemon' = pokemon
       /\ Skipped =>
              /\ winner' = 0 /\ result' = None
              /\ pc = "tick" => (pc' = "swap" /\ attacker' = attacker /\ turn' = turn)
              /\ pc = "swap" => (pc' = "turn" /\ attacker' = defender
                                 /\ turn' = turn + 1)]_vars

C20_Witness ==
    /\ Skipped
    /\ pc = "swap"
    /\ pokemon[attacker].hp < BaseHp(attacker)
    /\ pokemon[defender].status = "burn"
    /\ turn >= 3

=============================================================================
